---- MODULE Spec2Model ----
(***************************************************************************)
(* WebRtcSession (talk/app/webrtc/webrtcsession.cc): the session-signaling *)
(* state machine, its local-candidate aggregation, the remote-candidate    *)
(* routing, the call-setup watchdog and the voice/video channel lifecycle. *)
(*                                                                         *)
(* Every handler is one atomic action.  The collaborators (channel         *)
(* manager, channels, transport proxies, description factory, signaling    *)
(* thread message queue, observer) are recorded as the sequence of calls   *)
(* the last handler made on them (lastOp.calls), plus the little state of  *)
(* theirs that the session reads back.                                     *)
(***************************************************************************)
EXTENDS Integers, Sequences, FiniteSets, TLC

(* ------------------------------ constants ------------------------------ *)

kAllowedCandidates == 4
MSG_CANDIDATE_TIMEOUT == 101
MSG_OTHER == 0
kRtpVideoChannelStr == "video_rtp"
kRtcpVideoChannelStr == "video_rtcp"

(* ------------------------------- bounds -------------------------------- *)

\* longest batch of one on_transport_candidates_ready event
MaxBatch == 2
\* longest candidate list given to set_remote_candidates
MaxRemote == 2
\* watchdog schedulings followed per session
MaxArmed == 3
\* channel handles the channel manager hands out per session
MaxChannels == 3
\* session descriptions allocated per session
MaxDescs == 2
\* streams per content description
MaxStreams == 1
\* destroy calls per channel handle that are followed
MaxDestroys == 2
\* handler calls followed when every handler may run on any thread
MaxSteps == 3
\* peer connections asked of one factory
MaxPeers == 4

(* ------------------------------- domains ------------------------------- *)

NULL == 0

ChannelNames == {"rtp", "rtcp", kRtpVideoChannelStr, kRtcpVideoChannelStr, "data"}

Candidate(n, g) == [name |-> n, generation |-> g]

\* what the transports can hand to the session: one candidate per channel
\* name, and a second, different candidate for "rtp"
LocalPool == {Candidate(n, 0) : n \in ChannelNames} \cup {Candidate("rtp", 1)}

\* the candidates of the four channels of a call, and a second, different
\* candidate for "rtp"
InsertPool == {c \in LocalPool : c.name # "data"}

\* what the remote side can send; "video" is a name that is no video channel
RemotePool == {Candidate(n, 0) : n \in ChannelNames \cup {"video"}}

\* the candidates that come with a remote description: one for the audio
\* channel, one for the video channel
AnswerPool == {c \in RemotePool : c.name \in {"rtp", kRtpVideoChannelStr}}

\* the local candidates as the two transports report them: the audio
\* transport its two channels, the video transport its two
TransportBatches ==
  {<<Candidate("rtp", 0), Candidate("rtcp", 0)>>,
   <<Candidate(kRtpVideoChannelStr, 0), Candidate(kRtcpVideoChannelStr, 0)>>}

\* remote candidate lists: none, and one candidate for each media type
RemoteBatches ==
  {<<>>, <<Candidate("rtp", 0), Candidate(kRtpVideoChannelStr, 0)>>}

SeqsUpTo(S, n) == UNION {[1..k -> S] : k \in 0..n}

Contents == {"audio", "video"}

\* a content of a description: absent, or present with so many streams
NoContent == [present |-> FALSE, streams |-> 0]

Content(n) == [present |-> TRUE, streams |-> n]

ContentKinds == {NoContent} \cup {Content(n) : n \in 0..MaxStreams}

\* the description slot that holds nothing
NoDescription == [id |-> NULL, audio |-> NoContent, video |-> NoContent]

VARIABLES
  pc,                  \* "alive", "crashed" (abort or fault), "destroyed"
  state_,              \* BaseSession::state()
  voice_channel_,      \* handle, NULL when absent
  video_channel_,      \* handle, NULL when absent
  channels,            \* the channel manager's handles, 1..created
  proxies,             \* content name -> "absent" | "present" | "negotiated"
  local_description_,  \* [id, audio, video], id NULL when none is held
  remote_description_, \* [id, audio, video], id NULL when none is held
  descs,               \* [made: ids allocated so far, freed: set of ids deleted]
  local_candidates_,   \* sequence of candidates
  observer_,           \* TRUE when an observer is registered
  transports,          \* content name -> [has_channels, writable]
  msgq,                \* MSG_CANDIDATE_TIMEOUT messages: [delayed, due]
  tally,               \* per-session counts of observable effects
  steps,               \* handler calls so far, counted where a run is cut short
  factory,             \* the peer connection factory: [made, pcs]
  lastOp               \* the last handler run: [op, cur, arg, ret, calls]

candVars == <<local_candidates_, observer_>>
chanVars == <<voice_channel_, video_channel_, channels, proxies>>
descVars == <<local_description_, remote_description_, descs>>
watchVars == <<transports, msgq>>

vars == <<pc, state_, voice_channel_, video_channel_, channels, proxies,
          local_description_, remote_description_, descs, local_candidates_,
          observer_, transports, msgq, tally, steps, factory, lastOp>>

sessionVars == <<pc, state_, chanVars, descVars, candVars, watchVars, tally, steps>>

Call(fn, target, val) == [fn |-> fn, target |-> target, val |-> val]

OpL(op, cur, arg, ret, calls, locals) ==
  [op |-> op, cur |-> cur, arg |-> arg, ret |-> ret, calls |-> calls,
   locals |-> locals]

Op(op, cur, arg, ret, calls) == OpL(op, cur, arg, ret, calls, "none")

\* how many calls of fn on target the last handler made
RECURSIVE CountCalls(_, _, _)
CountCalls(calls, fn, target) ==
  IF calls = <<>> THEN 0
  ELSE (IF Head(calls).fn = fn /\ Head(calls).target = target THEN 1 ELSE 0)
       + CountCalls(Tail(calls), fn, target)

Init ==
  /\ pc = "alive"
  /\ state_ = "INIT"
  /\ voice_channel_ = NULL
  /\ video_channel_ = NULL
  /\ channels = <<>>
  /\ proxies = [c \in Contents |-> "absent"]
  /\ local_description_ = NoDescription
  /\ remote_description_ = NoDescription
  /\ descs = [made |-> 0, freed |-> {}]
  /\ local_candidates_ = <<>>
  /\ observer_ = FALSE
  /\ transports = [c \in Contents |-> [has_channels |-> FALSE, writable |-> FALSE]]
  /\ msgq = [delayed |-> 0, due |-> 0]
  /\ tally = [candidates_ready |-> 0, errors |-> 0, armed |-> 0, superseded |-> 0,
              enable_voice |-> 0, enable_video |-> 0]
  /\ steps = 0
  /\ factory = [made |-> "none", pcs |-> <<>>]
  /\ lastOp = Op("WebRtcSession", TRUE, "none", "none", <<>>)

(* ------------------- ASSERT(signaling_thread()->IsCurrent()) ----------- *)

\* ASSERT aborts a debug build and is compiled out of a release build: a
\* handler that asserts and is called off the signaling thread either
\* aborts or runs its body.
AssertOutcomes(cur) == IF cur THEN {"run"} ELSE {"abort", "run"}

Abort(op, cur, arg) ==
  /\ pc' = "crashed"
  /\ lastOp' = Op(op, cur, arg, "abort", <<>>)
  /\ UNCHANGED <<state_, chanVars, descVars, candVars, watchVars, tally>>

(* --------------------------- candidate aggregator ---------------------- *)

RECURSIVE CheckCandidateFrom(_, _, _)
CheckCandidateFrom(lc, name, i) ==
  IF i > Len(lc) THEN FALSE
  ELSE IF lc[i].name = name THEN TRUE
  ELSE CheckCandidateFrom(lc, name, i + 1)

CheckCandidate(lc, name) == CheckCandidateFrom(lc, name, 1)

\* InsertTransportCandidates that stores the latest candidate of a channel
\* name in place of the one it holds
RECURSIVE InsertTransportCandidatesLastWins(_, _)
InsertTransportCandidatesLastWins(lc, candidates) ==
  IF candidates = <<>> THEN lc
  ELSE InsertTransportCandidatesLastWins(
         IF ~CheckCandidate(lc, Head(candidates).name)
         THEN Append(lc, Head(candidates))
         ELSE [i \in 1..Len(lc) |->
                 IF lc[i].name = Head(candidates).name THEN Head(candidates)
                 ELSE lc[i]],
         Tail(candidates))

RECURSIVE InsertTransportCandidates(_, _)
InsertTransportCandidates(lc, candidates) ==
  IF candidates = <<>> THEN lc
  ELSE InsertTransportCandidates(
         IF ~CheckCandidate(lc, Head(candidates).name)
         THEN Append(lc, Head(candidates))
         ELSE lc,
         Tail(candidates))

\* the call of InsertTransportCandidates from its one caller, which makes it
\* unless the set holds kAllowedCandidates entries; the batch is kept
InsertCandidates(candidates) ==
  /\ pc = "alive"
  /\ Len(local_candidates_) # kAllowedCandidates
  /\ local_candidates_' = InsertTransportCandidates(local_candidates_, candidates)
  /\ lastOp' = Op("InsertTransportCandidates", TRUE, candidates, "none", <<>>)
  /\ UNCHANGED <<pc, state_, chanVars, descVars, observer_, watchVars, tally>>

\* WebRtcSession::RegisterObserver: observer_ = observer
RegisterObserver ==
  /\ pc = "alive"
  /\ ~observer_
  /\ observer_' = TRUE
  /\ lastOp' = Op("RegisterObserver", TRUE, "none", "none", <<>>)
  /\ UNCHANGED <<pc, state_, chanVars, descVars, local_candidates_, watchVars, tally>>

OnTransportCandidatesReadyBody(cur, candidates) ==
  IF Len(local_candidates_) = kAllowedCandidates
  THEN /\ lastOp' = Op("OnTransportCandidatesReady", cur, "none", "none", <<>>)
       /\ UNCHANGED <<local_candidates_, tally>>
  ELSE LET lc == InsertTransportCandidates(local_candidates_, candidates)
           notify == Len(lc) = kAllowedCandidates /\ observer_
       IN /\ local_candidates_' = lc
          /\ tally' = [tally EXCEPT !.candidates_ready = @ + (IF notify THEN 1 ELSE 0)]
          /\ lastOp' = Op("OnTransportCandidatesReady", cur, "none", "none",
                          IF notify THEN <<Call("OnCandidatesReady", "observer", lc)>>
                          ELSE <<>>)

OnTransportCandidatesReady(cur, candidates) ==
  /\ pc = "alive"
  /\ \E outcome \in AssertOutcomes(cur) :
       IF outcome = "abort"
       THEN Abort("OnTransportCandidatesReady", cur, "none")
       ELSE /\ OnTransportCandidatesReadyBody(cur, candidates)
            /\ UNCHANGED <<pc, state_, chanVars, descVars, observer_, watchVars>>

(* --------------------------- timeout supervisor ------------------------ *)

\* talk_base::MessageQueue::Clear(handler, id): drops every pending message
\* of that handler and id, delayed or already due
Clear(q) == [delayed |-> 0, due |-> 0]

\* talk_base::MessageQueue::PostDelayed(delay, handler, id)
PostDelayed(q) == [q EXCEPT !.delayed = @ + 1]

Pending(q) == q.delayed + q.due

\* the transport layer changes a transport's channels or write state
TransportChange(t, has_channels, writable) ==
  /\ pc = "alive"
  /\ transports[t] # [has_channels |-> has_channels, writable |-> writable]
  /\ transports' = [transports EXCEPT
                      ![t] = [has_channels |-> has_channels, writable |-> writable]]
  /\ lastOp' = Op("TransportChange", TRUE, t, "none", <<>>)
  /\ UNCHANGED <<pc, state_, chanVars, descVars, candVars, msgq, tally>>

\* OnTransportWritable without its Clear: the new watchdog is posted beside
\* the pending one
OnTransportWritableBodyNoClear(op, cur, t) ==
  LET arm == transports[t].has_channels /\ ~transports[t].writable
  IN /\ arm => tally.armed < MaxArmed
     /\ msgq' = IF arm THEN PostDelayed(msgq) ELSE msgq
     /\ tally' = [tally EXCEPT !.armed = @ + (IF arm THEN 1 ELSE 0)]
     /\ lastOp' = OpL(op, cur, t, "none",
                      IF arm
                      THEN <<Call("PostDelayed", "signaling_thread",
                                  MSG_CANDIDATE_TIMEOUT)>>
                      ELSE <<>>,
                      [removed |-> Clear(msgq)])

\* OnTransportWritable without its test of writable()
OnTransportWritableBodyNoWritableTest(op, cur, t) ==
  LET arm == transports[t].has_channels
      cleared == Clear(msgq)
  IN /\ arm => tally.armed < MaxArmed
     /\ msgq' = IF arm THEN PostDelayed(cleared) ELSE cleared
     /\ tally' = [tally EXCEPT !.superseded = @ + Pending(msgq) - Pending(cleared),
                               !.armed = @ + (IF arm THEN 1 ELSE 0)]
     /\ lastOp' = OpL(op, cur, t, "none",
                      <<Call("Clear", "signaling_thread", MSG_CANDIDATE_TIMEOUT)>>
                      \o (IF arm
                          THEN <<Call("PostDelayed", "signaling_thread",
                                      MSG_CANDIDATE_TIMEOUT)>>
                          ELSE <<>>),
                      [removed |-> msgq])

OnTransportWritableBody(op, cur, t) ==
  LET arm == transports[t].has_channels /\ ~transports[t].writable
      cleared == Clear(msgq)
  IN /\ arm => tally.armed < MaxArmed
     /\ msgq' = IF arm THEN PostDelayed(cleared) ELSE cleared
     /\ tally' = [tally EXCEPT !.superseded = @ + Pending(msgq) - Pending(cleared),
                               !.armed = @ + (IF arm THEN 1 ELSE 0)]
     /\ lastOp' = OpL(op, cur, t, "none",
                      <<Call("Clear", "signaling_thread", MSG_CANDIDATE_TIMEOUT)>>
                      \o (IF arm
                          THEN <<Call("PostDelayed", "signaling_thread",
                                      MSG_CANDIDATE_TIMEOUT)>>
                          ELSE <<>>),
                      [removed |-> msgq])

OnTransportWritable(cur, t) ==
  /\ pc = "alive"
  /\ \E outcome \in AssertOutcomes(cur) :
       IF outcome = "abort"
       THEN Abort("OnTransportWritable", cur, t)
       ELSE /\ OnTransportWritableBody("OnTransportWritable", cur, t)
            /\ UNCHANGED <<pc, state_, chanVars, descVars, candVars, transports>>

OnTransportConnecting(cur, t) ==
  /\ pc = "alive"
  /\ \E outcome \in AssertOutcomes(cur) :
       IF outcome = "abort"
       THEN Abort("OnTransportConnecting", cur, t)
       ELSE /\ OnTransportWritableBody("OnTransportConnecting", cur, t)
            /\ UNCHANGED <<pc, state_, chanVars, descVars, candVars, transports>>

\* kCallSetupTimeout ms have passed since a message was posted: it is due
TimeElapses ==
  /\ pc = "alive"
  /\ msgq.delayed > 0
  /\ msgq' = [delayed |-> msgq.delayed - 1, due |-> msgq.due + 1]
  /\ lastOp' = Op("TimeElapses", TRUE, "none", "none", <<>>)
  /\ UNCHANGED <<pc, state_, chanVars, descVars, candVars, transports, tally>>

\* OnMessage that takes the watchdog message and signals nothing
OnMessageNoSignal(message_id) ==
  /\ pc = "alive"
  /\ IF message_id = MSG_CANDIDATE_TIMEOUT
     THEN /\ msgq.due > 0
          /\ msgq' = [msgq EXCEPT !.due = @ - 1]
          /\ lastOp' = Op("OnMessage", TRUE, message_id, "none", <<>>)
          /\ UNCHANGED tally
     ELSE /\ lastOp' = Op("OnMessage", TRUE, message_id, "none", <<>>)
          /\ UNCHANGED <<msgq, tally>>
  /\ UNCHANGED <<pc, state_, chanVars, descVars, candVars, transports>>

\* OnMessage that ends the session's channels when the watchdog fires
OnMessageTerminates(message_id) ==
  /\ pc = "alive"
  /\ IF message_id = MSG_CANDIDATE_TIMEOUT
     THEN /\ msgq.due > 0
          /\ msgq' = [msgq EXCEPT !.due = @ - 1]
          /\ tally' = [tally EXCEPT !.errors = @ + 1]
          /\ voice_channel_' = NULL
          /\ video_channel_' = NULL
          /\ channels' = [h \in 1..Len(channels) |->
                            IF h \in {voice_channel_, video_channel_}
                            THEN [channels[h] EXCEPT !.destroys = @ + 1]
                            ELSE channels[h]]
          /\ lastOp' = Op("OnMessage", TRUE, message_id, "none",
                          <<Call("SignalError", "observer", "none")>>)
     ELSE /\ lastOp' = Op("OnMessage", TRUE, message_id, "none", <<>>)
          /\ UNCHANGED <<msgq, tally, voice_channel_, video_channel_, channels>>
  /\ UNCHANGED <<pc, state_, proxies, descVars, candVars, transports>>

\* the signaling thread dispatches a message to the session
OnMessage(message_id) ==
  /\ pc = "alive"
  /\ IF message_id = MSG_CANDIDATE_TIMEOUT
     THEN /\ msgq.due > 0
          /\ msgq' = [msgq EXCEPT !.due = @ - 1]
          /\ tally' = [tally EXCEPT !.errors = @ + 1]
          /\ lastOp' = Op("OnMessage", TRUE, message_id, "none",
                          <<Call("SignalError", "observer", "none")>>)
     ELSE /\ lastOp' = Op("OnMessage", TRUE, message_id, "none", <<>>)
          /\ UNCHANGED <<msgq, tally>>
  /\ UNCHANGED <<pc, state_, chanVars, descVars, candVars, transports>>

(* ------------------------- channel lifecycle manager ------------------- *)

NewChannel(kind) ==
  [kind |-> kind, destroys |-> 0, deleted |-> FALSE, enabled |-> FALSE,
   muted |-> FALSE]

\* talk_base::scoped_ptr::reset(p): deletes the object held before
Reset(chs, old) == IF old = NULL THEN chs ELSE [chs EXCEPT ![old].deleted = TRUE]

\* the channel manager creates the content's transport proxy with the channel
WithProxy(px, c) == IF px[c] = "absent" THEN [px EXCEPT ![c] = "present"] ELSE px

\* CreateChannels that gives the voice channel back when the video channel
\* cannot be created
CreateChannelsRollback(voice_ok, video_ok) ==
  LET chs1 == Reset(channels, voice_channel_)
      chs2 == IF voice_ok THEN Append(chs1, NewChannel("voice")) ELSE chs1
      voice == IF voice_ok THEN Len(chs2) ELSE NULL
      px1 == IF voice_ok THEN WithProxy(proxies, "audio") ELSE proxies
      call1 == <<Call("CreateVoiceChannel", "channel_manager_", voice)>>
  IN IF voice = NULL
     THEN [voice |-> NULL, video |-> video_channel_, channels |-> chs2,
           proxies |-> px1, ret |-> FALSE, calls |-> call1]
     ELSE LET chs3 == Reset(chs2, video_channel_)
              chs4 == IF video_ok THEN Append(chs3, NewChannel("video")) ELSE chs3
              video == IF video_ok THEN Len(chs4) ELSE NULL
              px2 == IF video_ok THEN WithProxy(px1, "video") ELSE px1
              call2 == Append(call1, Call("CreateVideoChannel", "channel_manager_", video))
          IN IF video = NULL
             THEN [voice |-> NULL, video |-> NULL,
                   channels |-> [chs4 EXCEPT ![voice].destroys = @ + 1],
                   proxies |-> px2, ret |-> FALSE,
                   calls |-> Append(call2,
                      Call("DestroyVoiceChannel", "channel_manager_", voice))]
             ELSE [voice |-> voice, video |-> video, channels |-> chs4,
                   proxies |-> px2, ret |-> TRUE,
                   calls |-> Append(call2,
                      Call("SpeculativelyConnectAllTransportChannels", "session", "none"))]

\* CreateChannels with the channel manager's two answers
CreateChannels(voice_ok, video_ok) ==
  LET chs1 == Reset(channels, voice_channel_)
      chs2 == IF voice_ok THEN Append(chs1, NewChannel("voice")) ELSE chs1
      voice == IF voice_ok THEN Len(chs2) ELSE NULL
      px1 == IF voice_ok THEN WithProxy(proxies, "audio") ELSE proxies
      call1 == <<Call("CreateVoiceChannel", "channel_manager_", voice)>>
  IN IF voice = NULL
     THEN [voice |-> NULL, video |-> video_channel_, channels |-> chs2,
           proxies |-> px1, ret |-> FALSE, calls |-> call1]
     ELSE LET chs3 == Reset(chs2, video_channel_)
              chs4 == IF video_ok THEN Append(chs3, NewChannel("video")) ELSE chs3
              video == IF video_ok THEN Len(chs4) ELSE NULL
              px2 == IF video_ok THEN WithProxy(px1, "video") ELSE px1
              call2 == Append(call1, Call("CreateVideoChannel", "channel_manager_", video))
          IN IF video = NULL
             THEN [voice |-> voice, video |-> NULL, channels |-> chs4,
                   proxies |-> px2, ret |-> FALSE, calls |-> call2]
             ELSE [voice |-> voice, video |-> video, channels |-> chs4,
                   proxies |-> px2, ret |-> TRUE,
                   calls |-> Append(call2,
                      Call("SpeculativelyConnectAllTransportChannels", "session", "none"))]

Initialize(cur, voice_ok, video_ok) ==
  /\ pc = "alive"
  /\ Len(channels) + 2 <= MaxChannels
  /\ LET r == CreateChannels(voice_ok, video_ok)
     IN /\ voice_channel_' = r.voice
        /\ video_channel_' = r.video
        /\ channels' = r.channels
        /\ proxies' = r.proxies
        /\ lastOp' = Op("Initialize", cur, <<voice_ok, video_ok>>, r.ret,
                        <<Call("set_secure", "session_desc_factory_", "SEC_REQUIRED")>>
                        \o r.calls)
  /\ UNCHANGED <<pc, state_, descVars, candVars, watchVars, tally>>

\* Terminate that reads the handles with get() and keeps them
TerminatedNoRelease ==
  LET chs1 == IF voice_channel_ # NULL
              THEN [channels EXCEPT ![voice_channel_].destroys = @ + 1]
              ELSE channels
      call1 == IF voice_channel_ # NULL
               THEN <<Call("DestroyVoiceChannel", "channel_manager_", voice_channel_)>>
               ELSE <<>>
      chs2 == IF video_channel_ # NULL
              THEN [chs1 EXCEPT ![video_channel_].destroys = @ + 1]
              ELSE chs1
      call2 == IF video_channel_ # NULL
               THEN Append(call1,
                      Call("DestroyVideoChannel", "channel_manager_", video_channel_))
               ELSE call1
  IN [voice |-> voice_channel_, video |-> video_channel_, channels |-> chs2,
      calls |-> call2]

\* Terminate: the handles and the channel manager after it, and its calls
Terminated ==
  LET chs1 == IF voice_channel_ # NULL
              THEN [channels EXCEPT ![voice_channel_].destroys = @ + 1]
              ELSE channels
      call1 == IF voice_channel_ # NULL
               THEN <<Call("DestroyVoiceChannel", "channel_manager_", voice_channel_)>>
               ELSE <<>>
      chs2 == IF video_channel_ # NULL
              THEN [chs1 EXCEPT ![video_channel_].destroys = @ + 1]
              ELSE chs1
      call2 == IF video_channel_ # NULL
               THEN Append(call1,
                      Call("DestroyVideoChannel", "channel_manager_", video_channel_))
               ELSE call1
  IN [voice |-> NULL, video |-> NULL, channels |-> chs2, calls |-> call2]

Terminate(cur) ==
  /\ pc = "alive"
  /\ \A h \in 1..Len(channels) : channels[h].destroys < MaxDestroys
  /\ LET r == Terminated
     IN /\ voice_channel_' = r.voice
        /\ video_channel_' = r.video
        /\ channels' = r.channels
        /\ lastOp' = Op("Terminate", cur, "none", "none", r.calls)
  /\ UNCHANGED <<pc, state_, proxies, descVars, candVars, watchVars, tally>>

\* ~WebRtcSession: Terminate, then the members and the base session go
Destructor(cur) ==
  /\ pc = "alive"
  /\ \A h \in 1..Len(channels) : channels[h].destroys < MaxDestroys
  /\ LET r == Terminated
     IN /\ voice_channel_' = r.voice
        /\ video_channel_' = r.video
        /\ channels' = r.channels
        /\ lastOp' = Op("~WebRtcSession", cur, "none", "none", r.calls)
  /\ pc' = "destroyed"
  /\ UNCHANGED <<state_, proxies, descVars, candVars, watchVars, tally>>

(* ------------------- calls through the channel handles ----------------- *)

\* voice_channel_->f(...) with voice_channel_ NULL is undefined: the
\* process faults there, or the call does nothing and the handler goes on
NullOutcomes == {"fault", "continue"}

Instr(fn, target, val) == [fn |-> fn, target |-> target, val |-> val]

\* runs the handler's statements in order from st = [state, channels,
\* calls, tally, faulted]
RECURSIVE Run(_, _, _, _, _)
Run(prog, st, voice, video, ub) ==
  IF prog = <<>> \/ st.faulted THEN st
  ELSE LET i == Head(prog)
           h == IF i.target = "voice" THEN voice ELSE video
           next ==
             IF i.fn = "SetState"
             THEN [st EXCEPT !.state = i.val,
                             !.calls = Append(@, Call("SetState", "session", i.val))]
             ELSE IF h = NULL
             THEN IF ub = "fault"
                  THEN [st EXCEPT !.faulted = TRUE,
                                  !.calls = Append(@, Call(i.fn, i.target,
                                               [handle |-> NULL, val |-> i.val]))]
                  ELSE [st EXCEPT !.calls = Append(@, Call(i.fn, i.target,
                                               [handle |-> NULL, val |-> i.val]))]
             ELSE [st EXCEPT
                     !.channels =
                        IF i.fn = "Enable" THEN [@ EXCEPT ![h].enabled = i.val]
                        ELSE IF i.fn = "Mute" THEN [@ EXCEPT ![h].muted = i.val]
                        ELSE @,
                     !.tally =
                        IF i.fn = "Enable" /\ i.target = "voice"
                        THEN [@ EXCEPT !.enable_voice = @ + 1]
                        ELSE IF i.fn = "Enable" /\ i.target = "video"
                        THEN [@ EXCEPT !.enable_video = @ + 1]
                        ELSE @,
                     !.calls = Append(@, Call(i.fn, i.target,
                                         [handle |-> h, val |-> i.val]))]
       IN Run(Tail(prog), next, voice, video, ub)

Start == [state |-> state_, channels |-> channels, calls |-> <<>>,
          tally |-> tally, faulted |-> FALSE]

\* cricket::GetFirstAudioContent / GetFirstVideoContent of a description
GetFirstContent(desc, c) ==
  IF desc.id = NULL THEN NoContent ELSE IF c = "audio" THEN desc.audio ELSE desc.video

\* the mute part without its tests of audio_info and video_info: a content
\* that is not in the description unmutes its channel
MuteProgAbsentUnmutes ==
  <<Instr("Mute", "voice",
          /\ GetFirstContent(local_description_, "audio").present
          /\ GetFirstContent(local_description_, "audio").streams = 0),
    Instr("Mute", "video",
          /\ GetFirstContent(local_description_, "video").present
          /\ GetFirstContent(local_description_, "video").streams = 0)>>

\* the second half of NegotiationDone: mute by the local description
MuteProg ==
  (IF GetFirstContent(local_description_, "audio").present
   THEN <<Instr("Mute", "voice",
                GetFirstContent(local_description_, "audio").streams = 0)>>
   ELSE <<>>)
  \o (IF GetFirstContent(local_description_, "video").present
      THEN <<Instr("Mute", "video",
                   GetFirstContent(local_description_, "video").streams = 0)>>
      ELSE <<>>)

\* NegotiationDone without its check of STATE_INIT
NegotiationDoneProgNoGuard ==
  <<Instr("SetState", "session", "SENTINITIATE"),
    Instr("SetState", "session", "RECEIVEDACCEPT"),
    Instr("Enable", "voice", TRUE),
    Instr("Enable", "video", TRUE)>> \o MuteProg

\* NegotiationDone without its second SetState
NegotiationDoneProgHalf ==
  (IF state_ = "INIT"
   THEN <<Instr("SetState", "session", "SENTINITIATE"),
          Instr("Enable", "voice", TRUE),
          Instr("Enable", "video", TRUE)>>
   ELSE <<>>) \o MuteProg

\* the statements of NegotiationDone, in order
NegotiationDoneProg ==
  (IF state_ = "INIT"
   THEN <<Instr("SetState", "session", "SENTINITIATE"),
          Instr("SetState", "session", "RECEIVEDACCEPT"),
          Instr("Enable", "voice", TRUE),
          Instr("Enable", "video", TRUE)>>
   ELSE <<>>) \o MuteProg

NegotiationDone(cur) ==
  /\ pc = "alive"
  /\ \E ub \in NullOutcomes :
       LET r == Run(NegotiationDoneProg, Start, voice_channel_, video_channel_, ub)
       IN /\ state_' = r.state
          /\ channels' = r.channels
          /\ tally' = r.tally
          /\ pc' = IF r.faulted THEN "crashed" ELSE pc
          /\ lastOp' = Op("NegotiationDone", cur, "none",
                          IF r.faulted THEN "fault" ELSE "none", r.calls)
  /\ UNCHANGED <<voice_channel_, video_channel_, proxies, descVars, candVars, watchVars>>

SetRemoteRenderer(cur) ==
  /\ pc = "alive"
  /\ \E outcome \in AssertOutcomes(cur), ub \in NullOutcomes :
       IF outcome = "abort"
       THEN Abort("SetRemoteRenderer", cur, "none")
       ELSE LET r == Run(<<Instr("SetRenderer", "video", 0)>>, Start,
                         voice_channel_, video_channel_, ub)
            IN /\ pc' = IF r.faulted THEN "crashed" ELSE pc
               /\ lastOp' = Op("SetRemoteRenderer", cur, "none",
                               IF r.faulted THEN "fault" ELSE "none", r.calls)
               /\ UNCHANGED <<state_, chanVars, descVars, candVars, watchVars, tally>>

SetLocalRenderer(cur) ==
  /\ pc = "alive"
  /\ \E outcome \in AssertOutcomes(cur) :
       IF outcome = "abort"
       THEN Abort("SetLocalRenderer", cur, "none")
       ELSE /\ lastOp' = Op("SetLocalRenderer", cur, "none", "none", <<>>)
            /\ UNCHANGED <<pc, state_, chanVars, descVars, candVars, watchVars, tally>>

\* set_ok: SetVideoCapturer's answer; capture: SetVideoCapture's result
SetCaptureDevice(cur, set_ok, capture) ==
  /\ pc = "alive"
  /\ \E outcome \in AssertOutcomes(cur) :
       IF outcome = "abort"
       THEN Abort("SetCaptureDevice", cur, "none")
       ELSE /\ lastOp' =
                 IF ~set_ok
                 THEN Op("SetCaptureDevice", cur, "none", FALSE,
                         <<Call("SetVideoCapturer", "channel_manager_", 0)>>)
                 ELSE Op("SetCaptureDevice", cur, "none",
                         capture \in {"CR_SUCCESS", "CR_PENDING"},
                         <<Call("SetVideoCapturer", "channel_manager_", 0),
                           Call("SetVideoCapture", "channel_manager_", TRUE)>>)
            /\ UNCHANGED <<pc, state_, chanVars, descVars, candVars, watchVars, tally>>

OnTransportRequestSignaling(cur, t) ==
  /\ pc = "alive"
  /\ \E outcome \in AssertOutcomes(cur) :
       IF outcome = "abort"
       THEN Abort("OnTransportRequestSignaling", cur, t)
       ELSE /\ lastOp' = Op("OnTransportRequestSignaling", cur, t, "none",
                            <<Call("OnSignalingReady", t, "none")>>)
            /\ UNCHANGED <<pc, state_, chanVars, descVars, candVars, watchVars, tally>>

OnTransportChannelGone(cur, t) ==
  /\ pc = "alive"
  /\ \E outcome \in AssertOutcomes(cur) :
       IF outcome = "abort"
       THEN Abort("OnTransportChannelGone", cur, t)
       ELSE /\ lastOp' = Op("OnTransportChannelGone", cur, t, "none", <<>>)
            /\ UNCHANGED <<pc, state_, chanVars, descVars, candVars, watchVars, tally>>

(* ------------------------- session descriptions ------------------------ *)

\* BaseSession::set_local_description / set_remote_description: the slot
\* takes the new description and the one held before is deleted
Adopt(d, old, new) ==
  IF old.id # NULL /\ old.id # new.id THEN [d EXCEPT !.freed = @ \cup {old.id}] ELSE d

\* a description the factory (or the caller) has just allocated
Fresh(audio, video) == [id |-> descs.made + 1, audio |-> audio, video |-> video]

\* ProvideOffer without its check of options.has_video
ProvideOfferNoCheck(cur, has_video, audio, video) ==
  /\ pc = "alive"
  /\ descs.made < MaxDescs
  /\ LET offer == Fresh(audio, video)
     IN /\ local_description_' = offer
        /\ descs' = Adopt([descs EXCEPT !.made = @ + 1], local_description_, offer)
        /\ UNCHANGED remote_description_
        /\ lastOp' = Op("ProvideOffer", cur, has_video, offer.id,
                        <<Call("CreateOffer", "session_desc_factory_",
                               [current |-> local_description_.id]),
                          Call("set_local_description", "session", offer.id)>>)
  /\ UNCHANGED <<pc, state_, chanVars, candVars, watchVars, tally>>

\* audio, video: the contents the description factory puts in the offer
ProvideOffer(cur, has_video, audio, video) ==
  /\ pc = "alive"
  /\ IF ~has_video
     THEN /\ lastOp' = Op("ProvideOffer", cur, has_video, NULL, <<>>)
          /\ UNCHANGED descVars
     ELSE /\ descs.made < MaxDescs
          /\ LET offer == Fresh(audio, video)
             IN /\ local_description_' = offer
                /\ descs' = Adopt([descs EXCEPT !.made = @ + 1], local_description_, offer)
                /\ UNCHANGED remote_description_
                /\ lastOp' = Op("ProvideOffer", cur, has_video, offer.id,
                                <<Call("CreateOffer", "session_desc_factory_",
                                       [current |-> local_description_.id]),
                                  Call("set_local_description", "session", offer.id)>>)
  /\ UNCHANGED <<pc, state_, chanVars, candVars, watchVars, tally>>

ProvideAnswer(cur, has_video, audio, video) ==
  /\ pc = "alive"
  /\ descs.made < MaxDescs
  /\ LET answer == Fresh(audio, video)
     IN /\ local_description_' = answer
        /\ descs' = Adopt([descs EXCEPT !.made = @ + 1], local_description_, answer)
        /\ UNCHANGED remote_description_
        /\ lastOp' = Op("ProvideAnswer", cur, has_video, answer.id,
                        <<Call("CreateAnswer", "session_desc_factory_",
                               [offer |-> remote_description_.id,
                                current |-> local_description_.id]),
                          Call("set_local_description", "session", answer.id)>>)
  /\ UNCHANGED <<pc, state_, chanVars, candVars, watchVars, tally>>

(* ----------------------------- remote candidates ----------------------- *)

\* the partition with the test of kRtcpVideoChannelStr left out
RECURSIVE PartitionRtpOnly(_, _)
PartitionRtpOnly(candidates, buckets) ==
  IF candidates = <<>> THEN buckets
  ELSE PartitionRtpOnly(Tail(candidates),
         IF Head(candidates).name = kRtpVideoChannelStr
         THEN [buckets EXCEPT !.video = Append(@, Head(candidates))]
         ELSE [buckets EXCEPT !.audio = Append(@, Head(candidates))])

\* the first loop of SetRemoteCandidates: [audio, video] buckets
RECURSIVE Partition(_, _)
Partition(candidates, buckets) ==
  IF candidates = <<>> THEN buckets
  ELSE Partition(Tail(candidates),
         IF Head(candidates).name = kRtpVideoChannelStr
            \/ Head(candidates).name = kRtcpVideoChannelStr
         THEN [buckets EXCEPT !.video = Append(@, Head(candidates))]
         ELSE [buckets EXCEPT !.audio = Append(@, Head(candidates))])

\* the block without its test of negotiated()
ForwardNoNegotiatedCheck(st, c, bucket) ==
  IF bucket = <<>> \/ st.proxies[c] = "absent" THEN st
  ELSE [proxies |-> [st.proxies EXCEPT ![c] = "negotiated"],
        calls |-> st.calls
                  \o <<Call("CompleteNegotiation", c, "none")>>
                  \o <<Call("OnRemoteCandidates", c, bucket)>>]

\* one of the two blocks that hand a bucket to its transport proxy, from
\* st = [proxies, calls]
Forward(st, c, bucket) ==
  IF bucket = <<>> \/ st.proxies[c] = "absent" THEN st
  ELSE [proxies |-> [st.proxies EXCEPT ![c] = "negotiated"],
        calls |-> st.calls
                  \o (IF st.proxies[c] # "negotiated"
                      THEN <<Call("CompleteNegotiation", c, "none")>>
                      ELSE <<>>)
                  \o <<Call("OnRemoteCandidates", c, bucket)>>]

SetRemoteCandidatesResult(candidates) ==
  LET buckets == Partition(candidates, [audio |-> <<>>, video |-> <<>>])
      st1 == Forward([proxies |-> proxies, calls |-> <<>>], "audio", buckets.audio)
      st2 == Forward(st1, "video", buckets.video)
  IN [proxies |-> st2.proxies, calls |-> st2.calls, buckets |-> buckets]

\* SetRemoteCandidates that also keeps the candidates in local_candidates_
SetRemoteCandidatesStoresLocally(cur, candidates) ==
  /\ pc = "alive"
  /\ LET r == SetRemoteCandidatesResult(candidates)
     IN /\ proxies' = r.proxies
        /\ lastOp' = OpL("SetRemoteCandidates", cur, candidates, "none", r.calls,
                         r.buckets)
  /\ local_candidates_' = InsertTransportCandidates(local_candidates_, candidates)
  /\ UNCHANGED <<pc, state_, voice_channel_, video_channel_, channels, descVars,
                 observer_, watchVars, tally>>

SetRemoteCandidates(cur, candidates) ==
  /\ pc = "alive"
  /\ LET r == SetRemoteCandidatesResult(candidates)
     IN /\ proxies' = r.proxies
        /\ lastOp' = OpL("SetRemoteCandidates", cur, candidates, "none", r.calls,
                         r.buckets)
  /\ UNCHANGED <<pc, state_, voice_channel_, video_channel_, channels, descVars,
                 candVars, watchVars, tally>>

\* SetRemoteSessionDescription that hands the candidates on before it takes
\* the description
SetRemoteSessionDescriptionIngestFirst(cur, kind, candidates) ==
  /\ pc = "alive"
  /\ descs.made < MaxDescs
  /\ LET remote_offer == Fresh(kind, kind)
         r == SetRemoteCandidatesResult(candidates)
     IN /\ remote_description_' = remote_offer
        /\ descs' = Adopt([descs EXCEPT !.made = @ + 1], remote_description_,
                          remote_offer)
        /\ UNCHANGED local_description_
        /\ proxies' = r.proxies
        /\ lastOp' = OpL("SetRemoteSessionDescription", cur, candidates,
                         remote_offer.id,
                         r.calls
                         \o <<Call("set_remote_description", "session", remote_offer.id)>>,
                         r.buckets)
  /\ UNCHANGED <<pc, state_, voice_channel_, video_channel_, channels,
                 candVars, watchVars, tally>>

\* kind: the contents of the description the caller hands over
SetRemoteSessionDescription(cur, kind, candidates) ==
  /\ pc = "alive"
  /\ descs.made < MaxDescs
  /\ LET remote_offer == Fresh(kind, kind)
         r == SetRemoteCandidatesResult(candidates)
     IN /\ remote_description_' = remote_offer
        /\ descs' = Adopt([descs EXCEPT !.made = @ + 1], remote_description_,
                          remote_offer)
        /\ UNCHANGED local_description_
        /\ proxies' = r.proxies
        /\ lastOp' = OpL("SetRemoteSessionDescription", cur, candidates,
                         remote_offer.id,
                         <<Call("set_remote_description", "session", remote_offer.id)>>
                         \o r.calls,
                         r.buckets)
  /\ UNCHANGED <<pc, state_, voice_channel_, video_channel_, channels,
                 candVars, watchVars, tally>>

(* ------------------------ peer connection factory ---------------------- *)

kStunConfiguration == <<"STUN", "stun.l.google.com:19302">>

\* configuration strings as their space-separated tokens: the empty string,
\* a STUN server, a service type with no address, an unknown service type
Configurations ==
  {<<>>, kStunConfiguration, <<"STUN">>, <<"HTTP", "stun.l.google.com:19302">>}

ServiceTypes == {"STUN", "STUNS", "TURN", "TURNS"}

\* the configuration names a server: a known service type and its address
ParseConfigString(config) == Len(config) = 2 /\ config[1] \in ServiceTypes

\* modules: "internal" for the factory that makes its own threads and
\* allocator factory, "external" for the one that is given them
CreatePeerConnectionFactory(modules) ==
  /\ factory.made = "none"
  /\ factory' = [factory EXCEPT !.made = modules]
  /\ lastOp' = Op("CreatePeerConnectionFactory", TRUE, modules, TRUE, <<>>)
  /\ UNCHANGED sessionVars

\* CreatePeerConnection of a factory that gives up after one failure
CreatePeerConnectionSticky(config) ==
  /\ factory.made # "none"
  /\ Len(factory.pcs) < MaxPeers
  /\ LET failed == \E i \in 1..Len(factory.pcs) : factory.pcs[i] = NULL
         made == IF ParseConfigString(config) /\ ~failed
                 THEN Len(factory.pcs) + 1 ELSE NULL
     IN /\ factory' = [factory EXCEPT !.pcs = Append(@, made)]
        /\ lastOp' = Op("CreatePeerConnection", TRUE, config, made, <<>>)
  /\ UNCHANGED sessionVars

\* the connection made, NULL when the configuration names no server
CreatePeerConnection(config) ==
  /\ factory.made # "none"
  /\ Len(factory.pcs) < MaxPeers
  /\ LET made == IF ParseConfigString(config) THEN Len(factory.pcs) + 1 ELSE NULL
     IN /\ factory' = [factory EXCEPT !.pcs = Append(@, made)]
        /\ lastOp' = Op("CreatePeerConnection", TRUE, config, made, <<>>)
  /\ UNCHANGED sessionVars

(* ---------------------------- specifications --------------------------- *)

\* one factory and the peer connections asked of it
NextFactory ==
  \/ \E modules \in {"internal", "external"} : CreatePeerConnectionFactory(modules)
  \/ \E config \in Configurations : CreatePeerConnection(config)

SpecFactory == Init /\ [][NextFactory]_vars


\* the candidate aggregator alone, every event on the signaling thread
NextCandidates ==
  \/ RegisterObserver /\ UNCHANGED <<steps, factory>>
  \/ /\ \E candidates \in SeqsUpTo(LocalPool, MaxBatch) :
          OnTransportCandidatesReady(TRUE, candidates)
     /\ UNCHANGED <<steps, factory>>

SpecCandidates == Init /\ [][NextCandidates]_vars

\* the insertion of batches, each kept with the set it has made, and the
\* candidate-ready events that deliver the set
NextInsert ==
  \/ /\ \E candidates \in SeqsUpTo(InsertPool, MaxBatch) : InsertCandidates(candidates)
     /\ UNCHANGED <<steps, factory>>
  \/ RegisterObserver /\ UNCHANGED <<steps, factory>>
  \/ /\ \E c \in InsertPool : OnTransportCandidatesReady(TRUE, <<c>>)
     /\ UNCHANGED <<steps, factory>>

SpecInsert == Init /\ [][NextInsert]_vars

\* the timeout supervisor alone, every event on the signaling thread
NextWatchdog ==
  \/ /\ \E t \in Contents, has_channels \in BOOLEAN, writable \in BOOLEAN :
          TransportChange(t, has_channels, writable)
     /\ UNCHANGED <<steps, factory>>
  \/ (\E t \in Contents : OnTransportConnecting(TRUE, t)) /\ UNCHANGED <<steps, factory>>
  \/ (\E t \in Contents : OnTransportWritable(TRUE, t)) /\ UNCHANGED <<steps, factory>>
  \/ TimeElapses /\ UNCHANGED <<steps, factory>>
  \/ /\ \E message_id \in {MSG_CANDIDATE_TIMEOUT, MSG_OTHER} : OnMessage(message_id)
     /\ UNCHANGED <<steps, factory>>

SpecWatchdog == Init /\ [][NextWatchdog]_vars

\* the timeout supervisor on a signaling thread that keeps running: the
\* delay of a posted message runs out, and a message that is due is
\* dispatched
SpecWatchdogFair ==
  /\ SpecWatchdog
  /\ WF_vars(TimeElapses /\ UNCHANGED <<steps, factory>>)
  /\ WF_vars(OnMessage(MSG_CANDIDATE_TIMEOUT) /\ UNCHANGED <<steps, factory>>)

\* the remote-candidate routing, with the channel creation that makes the
\* transport proxies
NextRemote ==
  \/ /\ \E voice_ok \in BOOLEAN, video_ok \in BOOLEAN :
          Initialize(TRUE, voice_ok, video_ok)
     /\ UNCHANGED <<steps, factory>>
  \/ /\ \E candidates \in SeqsUpTo(RemotePool, MaxRemote) :
          SetRemoteCandidates(TRUE, candidates)
     /\ UNCHANGED <<steps, factory>>

SpecRemote == Init /\ [][NextRemote]_vars

\* the two description slots, with the channel creation that makes the
\* transport proxies the remote candidates go to
NextDescriptions ==
  \/ /\ \E voice_ok \in BOOLEAN, video_ok \in BOOLEAN :
          Initialize(TRUE, voice_ok, video_ok)
     /\ UNCHANGED <<steps, factory>>
  \/ /\ \E has_video \in BOOLEAN, kind \in ContentKinds :
          ProvideOffer(TRUE, has_video, kind, kind)
     /\ UNCHANGED <<steps, factory>>
  \/ /\ \E kind \in ContentKinds : ProvideAnswer(TRUE, TRUE, kind, kind)
     /\ UNCHANGED <<steps, factory>>
  \/ /\ \E kind \in ContentKinds, candidates \in SeqsUpTo(AnswerPool, MaxRemote) :
          SetRemoteSessionDescription(TRUE, kind, candidates)
     /\ UNCHANGED <<steps, factory>>

SpecDescriptions == Init /\ [][NextDescriptions]_vars

\* a call being set up: the channels, an offer, local candidates, the
\* negotiation, and the audio transport with its watchdog
NextSetup ==
  \/ Initialize(TRUE, TRUE, TRUE) /\ UNCHANGED <<steps, factory>>
  \/ ProvideOffer(TRUE, TRUE, Content(1), Content(0)) /\ UNCHANGED <<steps, factory>>
  \/ /\ \E n \in {"rtp", kRtpVideoChannelStr} :
          OnTransportCandidatesReady(TRUE, <<Candidate(n, 0)>>)
     /\ UNCHANGED <<steps, factory>>
  \/ NegotiationDone(TRUE) /\ UNCHANGED <<steps, factory>>
  \/ /\ \E writable \in BOOLEAN : TransportChange("audio", TRUE, writable)
     /\ UNCHANGED <<steps, factory>>
  \/ OnTransportConnecting(TRUE, "audio") /\ UNCHANGED <<steps, factory>>
  \/ OnTransportWritable(TRUE, "audio") /\ UNCHANGED <<steps, factory>>
  \/ TimeElapses /\ UNCHANGED <<steps, factory>>
  \/ /\ \E message_id \in {MSG_CANDIDATE_TIMEOUT, MSG_OTHER} : OnMessage(message_id)
     /\ UNCHANGED <<steps, factory>>

SpecSetup == Init /\ [][NextSetup]_vars

\* the local and the remote candidate path side by side, on a session with
\* channels, an offer, an observer and the watchdog of its audio transport
NextPaths ==
  \/ Initialize(TRUE, TRUE, TRUE) /\ UNCHANGED <<steps, factory>>
  \/ RegisterObserver /\ UNCHANGED <<steps, factory>>
  \/ ProvideOffer(TRUE, TRUE, Content(1), Content(1)) /\ UNCHANGED <<steps, factory>>
  \/ /\ \E candidates \in TransportBatches :
          OnTransportCandidatesReady(TRUE, candidates)
     /\ UNCHANGED <<steps, factory>>
  \/ /\ \E candidates \in RemoteBatches : SetRemoteCandidates(TRUE, candidates)
     /\ UNCHANGED <<steps, factory>>
  \/ /\ \E candidates \in RemoteBatches :
          SetRemoteSessionDescription(TRUE, Content(1), candidates)
     /\ UNCHANGED <<steps, factory>>
  \/ NegotiationDone(TRUE) /\ UNCHANGED <<steps, factory>>
  \/ TransportChange("audio", TRUE, FALSE) /\ UNCHANGED <<steps, factory>>
  \/ OnTransportWritable(TRUE, "audio") /\ UNCHANGED <<steps, factory>>

SpecPaths == Init /\ [][NextPaths]_vars

\* the session state machine with its channels and its local description,
\* every call on the signaling thread
NextSession ==
  \/ /\ \E voice_ok \in BOOLEAN, video_ok \in BOOLEAN :
          Initialize(TRUE, voice_ok, video_ok)
     /\ UNCHANGED <<steps, factory>>
  \/ Terminate(TRUE) /\ UNCHANGED <<steps, factory>>
  \/ Destructor(TRUE) /\ UNCHANGED <<steps, factory>>
  \/ /\ \E has_video \in BOOLEAN, audio \in ContentKinds, video \in ContentKinds :
          ProvideOffer(TRUE, has_video, audio, video)
     /\ UNCHANGED <<steps, factory>>
  \/ NegotiationDone(TRUE) /\ UNCHANGED <<steps, factory>>
  \/ SetRemoteRenderer(TRUE) /\ UNCHANGED <<steps, factory>>

SpecSession == Init /\ [][NextSession]_vars

\* every handler, on the signaling thread or off it, for MaxSteps calls
Budget == steps < MaxSteps

Tick == steps' = steps + 1 /\ UNCHANGED factory

Threads == BOOLEAN

Next ==
  \/ Budget /\ Tick /\ RegisterObserver
  \/ Budget /\ Tick /\ \E cur \in Threads, c \in LocalPool :
       OnTransportCandidatesReady(cur, <<c>>)
  \/ Budget /\ Tick /\ \E t \in Contents, writable \in BOOLEAN :
       TransportChange(t, TRUE, writable)
  \/ Budget /\ Tick /\ \E cur \in Threads, t \in Contents : OnTransportConnecting(cur, t)
  \/ Budget /\ Tick /\ \E cur \in Threads, t \in Contents : OnTransportWritable(cur, t)
  \/ Budget /\ Tick /\ TimeElapses
  \/ Budget /\ Tick /\ \E message_id \in {MSG_CANDIDATE_TIMEOUT, MSG_OTHER} :
       OnMessage(message_id)
  \/ Budget /\ Tick /\ \E cur \in Threads, voice_ok \in BOOLEAN, video_ok \in BOOLEAN :
       Initialize(cur, voice_ok, video_ok)
  \/ Budget /\ Tick /\ \E cur \in Threads : Terminate(cur)
  \/ Budget /\ Tick /\ \E cur \in Threads : Destructor(cur)
  \/ Budget /\ Tick /\ \E cur \in Threads, has_video \in BOOLEAN, kind \in ContentKinds :
       ProvideOffer(cur, has_video, kind, kind)
  \/ Budget /\ Tick /\ \E cur \in Threads, kind \in ContentKinds :
       ProvideAnswer(cur, TRUE, kind, kind)
  \/ Budget /\ Tick /\ \E cur \in Threads, c \in RemotePool :
       SetRemoteSessionDescription(cur, Content(1), <<c>>)
  \/ Budget /\ Tick /\ \E cur \in Threads, c \in RemotePool :
       SetRemoteCandidates(cur, <<c>>)
  \/ Budget /\ Tick /\ \E cur \in Threads : NegotiationDone(cur)
  \/ Budget /\ Tick /\ \E cur \in Threads : SetRemoteRenderer(cur)
  \/ Budget /\ Tick /\ \E cur \in Threads : SetLocalRenderer(cur)
  \/ Budget /\ Tick /\ \E cur \in Threads, set_ok \in BOOLEAN :
       SetCaptureDevice(cur, set_ok, "CR_SUCCESS")
  \/ Budget /\ Tick /\ \E cur \in Threads, t \in Contents :
       OnTransportRequestSignaling(cur, t)
  \/ Budget /\ Tick /\ \E cur \in Threads, t \in Contents : OnTransportChannelGone(cur, t)

Spec == Init /\ [][Next]_vars

(* -------------------------------- claims ------------------------------- *)

Names(lc) == {lc[i].name : i \in 1..Len(lc)}

\* C1: whatever candidate-ready events arrive, LocalCandidateSet never holds
\* more than 4 entries and never holds two entries with the same channel
\* name.  (Refuted: a batch with more new names than free slots is stored
\* whole.)
C1_AtMostFourUnique ==
  /\ Len(local_candidates_) <= kAllowedCandidates
  /\ Cardinality(Names(local_candidates_)) = Len(local_candidates_)

\* C2: with an observer registered, on_candidates_ready fires in exactly the
\* event in which the 4th unique-named candidate is accepted, carrying the
\* full set, and in no other event.  (Refuted: the event that takes the set
\* from 3 entries past 4 notifies nobody.)
C2_FiresWhenFourthAccepted ==
  [][LET fourth == /\ Len(local_candidates_) < kAllowedCandidates
                   /\ Len(local_candidates_') >= kAllowedCandidates
     IN IF observer_ /\ fourth
        THEN /\ tally'.candidates_ready = tally.candidates_ready + 1
             /\ lastOp'.calls = <<Call("OnCandidatesReady", "observer",
                                       local_candidates_')>>
        ELSE tally'.candidates_ready = tally.candidates_ready]_vars

Handle(target) == IF target = "voice" THEN voice_channel_ ELSE video_channel_

ChannelContent(target) ==
  GetFirstContent(local_description_, IF target = "voice" THEN "audio" ELSE "video")

\* C3 as written: once the state has left INIT, negotiation_done() with both
\* channels present is a no-op: it makes no call and changes nothing.
\* (Refuted: every call mutes or unmutes by the local description.)
C3_LaterCallsAreNoOps ==
  [][(/\ lastOp'.op = "NegotiationDone"
      /\ state_ # "INIT"
      /\ voice_channel_ # NULL
      /\ video_channel_ # NULL)
     => /\ lastOp'.calls = <<>>
        /\ UNCHANGED <<state_, channels, tally>>]_vars

\* C3 amended: negotiation_done() leaves the state RECEIVED_ACCEPT; the move
\* from INIT and the two Enable calls happen at most once per session, and a
\* call made after the state has left INIT makes no SetState and no Enable
\* call; but every call that runs to its end sets the mute of each present
\* channel whose content is in the local description (muted iff the content
\* has no streams).
C3_TransitionsOnceMutesEveryCall ==
  [][lastOp'.op = "NegotiationDone"
     => /\ state_' = "RECEIVEDACCEPT"
        /\ tally'.enable_voice <= 1
        /\ tally'.enable_video <= 1
        /\ state_ # "INIT"
           => /\ CountCalls(lastOp'.calls, "SetState", "session") = 0
              /\ CountCalls(lastOp'.calls, "Enable", "voice") = 0
              /\ CountCalls(lastOp'.calls, "Enable", "video") = 0
              /\ UNCHANGED <<state_, tally>>
        /\ \A target \in {"voice", "video"} :
             (/\ Handle(target) # NULL
              /\ pc' = "alive"
              /\ ChannelContent(target).present)
             => /\ CountCalls(lastOp'.calls, "Mute", target) = 1
                /\ channels'[Handle(target)].muted
                   = (ChannelContent(target).streams = 0)]_vars

\* a call after the transition that made no Enable call and muted the voice
\* channel
C3_LaterCallMutes ==
  /\ lastOp.op = "NegotiationDone"
  /\ tally.enable_voice = 1
  /\ CountCalls(lastOp.calls, "Enable", "voice") = 0
  /\ CountCalls(lastOp.calls, "Mute", "voice") = 1
  /\ voice_channel_ # NULL
  /\ channels[voice_channel_].muted

\* C4: at most one watchdog message is outstanding, and every scheduling is
\* accounted for exactly once: it was superseded by a later event, or it is
\* still pending, or it delivered its error.  So two schedulings in a row
\* give one error, not two.
C4_OneWatchdogOutstanding ==
  /\ Pending(msgq) <= 1
  /\ tally.errors + Pending(msgq) + tally.superseded = tally.armed

\* two schedulings, the first superseded, and the one error delivered
C4_TwoSchedulingsOneError ==
  /\ lastOp.op = "OnMessage"
  /\ tally.armed = 2
  /\ tally.superseded = 1
  /\ tally.errors = 1
  /\ Pending(msgq) = 0

\* C5: provide_offer without has_video returns nothing, calls no factory and
\* leaves both descriptions as they were; with has_video it asks the factory
\* for an offer on the current local description and returns that offer,
\* which is the new local description.
C5_ProvideOfferNeedsVideo ==
  [][lastOp'.op = "ProvideOffer"
     => IF ~lastOp'.arg
        THEN /\ lastOp'.ret = NULL
             /\ lastOp'.calls = <<>>
             /\ UNCHANGED <<local_description_, remote_description_, descs>>
        ELSE /\ lastOp'.ret # NULL
             /\ lastOp'.ret = local_description_'.id
             /\ local_description_'.id # local_description_.id
             /\ local_description_'.id \notin descs'.freed
             /\ lastOp'.calls[1] = Call("CreateOffer", "session_desc_factory_",
                                        [current |-> local_description_.id])]_vars

\* an offer refused while a local description is held
C5_RefusedOfferKeepsDescription ==
  /\ lastOp.op = "ProvideOffer"
  /\ lastOp.arg = FALSE
  /\ lastOp.ret = NULL
  /\ local_description_.id # NULL

IsVideoCandidate(c) == c.name \in {"video_rtp", "video_rtcp"}

IsAudioCandidate(c) == ~IsVideoCandidate(c)

\* C6: set_remote_candidates puts a candidate in the video bucket iff its
\* name is "video_rtp" or "video_rtcp", every other one in the audio bucket,
\* each in input order; what a proxy is handed is its bucket.
C6_PartitionByName ==
  lastOp.op = "SetRemoteCandidates"
  => /\ lastOp.locals.video = SelectSeq(lastOp.arg, IsVideoCandidate)
     /\ lastOp.locals.audio = SelectSeq(lastOp.arg, IsAudioCandidate)
     /\ \A i \in 1..Len(lastOp.calls) :
          lastOp.calls[i].fn = "OnRemoteCandidates"
          => lastOp.calls[i].val
             = (IF lastOp.calls[i].target = "video"
                THEN SelectSeq(lastOp.arg, IsVideoCandidate)
                ELSE SelectSeq(lastOp.arg, IsAudioCandidate))

\* an unknown name and a video name, each handed to its proxy
C6_UnknownNameToAudio ==
  /\ lastOp.op = "SetRemoteCandidates"
  /\ lastOp.arg = <<Candidate("video", 0), Candidate("video_rtcp", 0)>>
  /\ CountCalls(lastOp.calls, "OnRemoteCandidates", "audio") = 1
  /\ CountCalls(lastOp.calls, "OnRemoteCandidates", "video") = 1

\* C7: when the voice channel is created and the video channel is not,
\* initialize() fails, keeps the voice handle (never destroyed or deleted),
\* starts no speculative connect, and a terminate() right after destroys
\* that voice channel; when the voice channel is not created, initialize()
\* fails without asking for a video channel.
C7_PartialCreationKeepsVoice ==
  [][/\ (lastOp'.op = "Initialize" /\ lastOp'.arg = <<TRUE, FALSE>>)
        => /\ lastOp'.ret = FALSE
           /\ voice_channel_' # NULL
           /\ video_channel_' = NULL
           /\ channels'[voice_channel_'].destroys = 0
           /\ ~channels'[voice_channel_'].deleted
           /\ CountCalls(lastOp'.calls, "DestroyVoiceChannel", "channel_manager_") = 0
           /\ CountCalls(lastOp'.calls, "SpeculativelyConnectAllTransportChannels",
                         "session") = 0
     /\ (lastOp'.op = "Initialize" /\ ~lastOp'.arg[1])
        => /\ lastOp'.ret = FALSE
           /\ voice_channel_' = NULL
           /\ CountCalls(lastOp'.calls, "CreateVideoChannel", "channel_manager_") = 0
           /\ CountCalls(lastOp'.calls, "SpeculativelyConnectAllTransportChannels",
                         "session") = 0
     /\ (/\ lastOp.op = "Initialize"
         /\ lastOp.arg = <<TRUE, FALSE>>
         /\ lastOp'.op = "Terminate")
        => /\ lastOp'.calls = <<Call("DestroyVoiceChannel", "channel_manager_",
                                     voice_channel_)>>
           /\ channels'[voice_channel_].destroys = 1
           /\ voice_channel_' = NULL]_vars

\* terminate() has destroyed the voice channel of a session that never got
\* a video channel
C7_TerminateAfterPartialCreation ==
  /\ lastOp.op = "Terminate"
  /\ lastOp.calls = <<Call("DestroyVoiceChannel", "channel_manager_", 1)>>
  /\ Len(channels) = 1
  /\ channels[1].destroys = 1

\* C8: terminate() (also the one the destructor runs) makes one destroy call
\* for each handle that is present and none for an absent one, and leaves
\* both handles absent; a terminate() right after another makes no call; no
\* channel is ever destroyed twice, nor destroyed and deleted.
C8_TerminateIdempotent ==
  [][/\ \A h \in 1..Len(channels') :
          /\ channels'[h].destroys <= 1
          /\ ~(channels'[h].deleted /\ channels'[h].destroys > 0)
     /\ lastOp'.op \in {"Terminate", "~WebRtcSession"}
        => /\ voice_channel_' = NULL
           /\ video_channel_' = NULL
           /\ CountCalls(lastOp'.calls, "DestroyVoiceChannel", "channel_manager_")
              = (IF voice_channel_ # NULL THEN 1 ELSE 0)
           /\ CountCalls(lastOp'.calls, "DestroyVideoChannel", "channel_manager_")
              = (IF video_channel_ # NULL THEN 1 ELSE 0)
           /\ Len(lastOp'.calls) = (IF voice_channel_ # NULL THEN 1 ELSE 0)
                                   + (IF video_channel_ # NULL THEN 1 ELSE 0)
           /\ lastOp.op = "Terminate" => lastOp'.calls = <<>>]_vars

\* the destructor's terminate after a terminate that destroyed both channels
C8_DestructorAfterTerminate ==
  /\ lastOp.op = "~WebRtcSession"
  /\ lastOp.calls = <<>>
  /\ Len(channels) = 2
  /\ channels[1].destroys = 1
  /\ channels[2].destroys = 1

Rank(s) == CASE s = "INIT" -> 0 [] s = "SENTINITIATE" -> 1 [] s = "RECEIVEDACCEPT" -> 2

\* C9: between handlers the state is INIT or RECEIVED_ACCEPT, it never moves
\* back, and the only step that changes it is a negotiation_done() run in
\* INIT, which passes SENT_INITIATE and ends in RECEIVED_ACCEPT.
C9_StateMovesForwardInOneEvent ==
  [][/\ state_' \in {"INIT", "RECEIVEDACCEPT"}
     /\ Rank(state_) <= Rank(state_')
     /\ state_' # state_
        => /\ lastOp'.op = "NegotiationDone"
           /\ state_ = "INIT"
           /\ SubSeq(lastOp'.calls, 1, 2)
              = <<Call("SetState", "session", "SENTINITIATE"),
                  Call("SetState", "session", "RECEIVEDACCEPT")>>]_vars

\* the state after negotiation, kept by a later terminate()
C9_AcceptedStateKept ==
  /\ state_ = "RECEIVEDACCEPT"
  /\ lastOp.op = "Terminate"

PublicOperations ==
  {"Initialize", "Terminate", "ProvideOffer", "ProvideAnswer",
   "SetRemoteSessionDescription", "SetRemoteCandidates", "NegotiationDone"}

\* C10, for the seven public operations it names: one of them called off the
\* signaling thread is rejected: the process stops at the failed precondition
\* and nothing of the session has changed.  (Refuted: these seven carry no
\* check of the thread at all; the transport callbacks carry an ASSERT, which
\* a release build leaves out.)
C10_OffThreadCallsRejected ==
  [][(~lastOp'.cur /\ lastOp'.op \in PublicOperations)
     => /\ pc' = "crashed"
        /\ lastOp'.calls = <<>>
        /\ UNCHANGED <<state_, chanVars, descVars, candVars, watchVars, tally>>]_vars

\* C11: a watchdog scheduled by a connecting/writable event for a transport
\* that has channels and is not writable ends, when the signaling thread
\* keeps dispatching, in a later connecting/writable event or in the error
\* signal to the observer: a pending watchdog goes away only through one of
\* the two, and it does go away.  The fire itself schedules nothing: after
\* the error the session retries nothing.
C11_QuietWaitEndsInError ==
  /\ \A n \in 1..MaxArmed :
       (tally.armed = n /\ Pending(msgq) = 1)
       ~> (tally.armed > n \/ Pending(msgq) = 0)
  /\ [][/\ Pending(msgq') < Pending(msgq)
           => \/ lastOp'.op \in {"OnTransportConnecting", "OnTransportWritable"}
              \/ /\ lastOp'.op = "OnMessage"
                 /\ tally'.errors = tally.errors + 1
                 /\ lastOp'.calls = <<Call("SignalError", "observer", "none")>>
        /\ lastOp'.op = "OnMessage"
           => /\ tally'.armed = tally.armed
              /\ Pending(msgq') <= Pending(msgq)
              /\ CountCalls(lastOp'.calls, "PostDelayed", "signaling_thread") = 0
              /\ CountCalls(lastOp'.calls, "Clear", "signaling_thread") = 0]_vars

\* the one scheduling of a session has delivered its error while the
\* transport still has channels and is not writable, and nothing is pending
C11_ErrorAfterQuietWait ==
  /\ lastOp.op = "OnMessage"
  /\ lastOp.calls = <<Call("SignalError", "observer", "none")>>
  /\ tally.armed = 1
  /\ tally.errors = 1
  /\ Pending(msgq) = 0
  /\ \E t \in Contents : transports[t].has_channels /\ ~transports[t].writable

Held == {local_description_.id, remote_description_.id} \ {NULL}

C13_HandlesTogether ==
  lastOp.op \in {"Initialize", "Terminate"}
  => ((voice_channel_ = NULL) <=> (video_channel_ = NULL))

\* C14: for a factory of either kind, a peer connection asked with the empty
\* configuration is not made, one asked with a STUN server's configuration
\* is made, and that also after earlier failures on the same factory.
C14_CreationByConfiguration ==
  [][lastOp'.op = "CreatePeerConnection"
     => /\ factory'.made \in {"internal", "external"}
        /\ lastOp'.arg = <<>> => lastOp'.ret = NULL
        /\ lastOp'.arg = kStunConfiguration
           => /\ lastOp'.ret # NULL
              /\ factory'.pcs[Len(factory'.pcs)] = lastOp'.ret
              /\ \A i \in 1..Len(factory.pcs) : factory.pcs[i] # lastOp'.ret]_vars

\* a factory given its threads has refused the empty configuration and then
\* made a connection for the STUN configuration
C14_SuccessAfterFailure ==
  /\ factory.made = "external"
  /\ lastOp.op = "CreatePeerConnection"
  /\ lastOp.arg = kStunConfiguration
  /\ factory.pcs = <<NULL, 2>>

\* where in calls the first call of fn on target is, 0 when there is none
FirstCall(calls, fn, target) ==
  IF \E i \in 1..Len(calls) : calls[i].fn = fn /\ calls[i].target = target
  THEN CHOOSE i \in 1..Len(calls) :
         /\ calls[i].fn = fn /\ calls[i].target = target
         /\ \A j \in 1..(i - 1) : ~(calls[j].fn = fn /\ calls[j].target = target)
  ELSE 0

\* C15: in set_remote_candidates, for each media type: the proxy's
\* negotiation is completed iff the bucket is non-empty and the proxy is
\* present and not negotiated, and then before the forward; the bucket is
\* forwarded, once and whole, iff it is non-empty and the proxy is present
\* (an absent proxy gets nothing and does not stop the other bucket); a
\* negotiated proxy stays negotiated, so no proxy is negotiated twice.
C15_NegotiateOnceThenForward ==
  [][/\ \A c \in Contents : proxies[c] = "negotiated" => proxies'[c] = "negotiated"
     /\ lastOp'.op = "SetRemoteCandidates"
        => \A c \in Contents :
             LET bucket == lastOp'.locals[c]
                 calls == lastOp'.calls
                 negotiates == bucket # <<>> /\ proxies[c] = "present"
                 forwards == bucket # <<>> /\ proxies[c] # "absent"
             IN /\ CountCalls(calls, "CompleteNegotiation", c)
                   = (IF negotiates THEN 1 ELSE 0)
                /\ CountCalls(calls, "OnRemoteCandidates", c)
                   = (IF forwards THEN 1 ELSE 0)
                /\ negotiates
                   => /\ FirstCall(calls, "CompleteNegotiation", c)
                         < FirstCall(calls, "OnRemoteCandidates", c)
                      /\ proxies'[c] = "negotiated"
                /\ forwards
                   => calls[FirstCall(calls, "OnRemoteCandidates", c)].val = bucket
                /\ ~negotiates => proxies'[c] = proxies[c]]_vars

\* candidates for both media types arrive while only the audio proxy
\* exists: the audio proxy is negotiated and then given its bucket, the
\* video bucket goes nowhere
C15_AbsentVideoProxySkipped ==
  /\ lastOp.op = "SetRemoteCandidates"
  /\ lastOp.locals.audio # <<>>
  /\ lastOp.locals.video # <<>>
  /\ proxies.video = "absent"
  /\ lastOp.calls = <<Call("CompleteNegotiation", "audio", "none"),
                      Call("OnRemoteCandidates", "audio", lastOp.locals.audio)>>

WatchdogEvents == {"OnTransportConnecting", "OnTransportWritable"}

\* C16: right after a connecting or writable event, a watchdog is pending
\* iff the transport of that event has channels and is not writable, and
\* then it is one, newly posted, with its whole delay ahead; what other
\* transports are waiting for does not count.
C16_PendingIffEventTransportWaits ==
  lastOp.op \in WatchdogEvents
  => LET t == transports[lastOp.arg]
     IN IF t.has_channels /\ ~t.writable
        THEN msgq = [delayed |-> 1, due |-> 0]
        ELSE msgq = [delayed |-> 0, due |-> 0]

\* the audio transport has channels and is not writable and its watchdog
\* was pending; the event of the writable video transport has removed it
C16_OtherTransportCancels ==
  /\ lastOp.op = "OnTransportWritable"
  /\ lastOp.arg = "video"
  /\ transports.video.has_channels
  /\ transports.video.writable
  /\ transports.audio.has_channels
  /\ ~transports.audio.writable
  /\ Pending(lastOp.locals.removed) = 1
  /\ Pending(msgq) = 0

\* C17: a watchdog fire takes its message off the queue, signals the error
\* once, and changes nothing else: state, handles, channels (none
\* destroyed), descriptions and local candidates are as before, and it
\* posts and clears nothing; there are never more errors than schedulings.
C17_FireOnlySignals ==
  [][/\ tally'.errors <= tally'.armed
     /\ tally'.errors # tally.errors
        => lastOp'.op = "OnMessage" /\ lastOp'.arg = MSG_CANDIDATE_TIMEOUT
     /\ (lastOp'.op = "OnMessage" /\ lastOp'.arg = MSG_CANDIDATE_TIMEOUT)
        => /\ lastOp'.calls = <<Call("SignalError", "observer", "none")>>
           /\ tally' = [tally EXCEPT !.errors = @ + 1]
           /\ msgq' = [msgq EXCEPT !.due = @ - 1]
           /\ UNCHANGED <<pc, state_, chanVars, descVars, candVars, transports>>]_vars

\* the watchdog has fired on a negotiated session that holds both channels,
\* an offer and a local candidate
C17_FireOnNegotiatedSession ==
  /\ lastOp.op = "OnMessage"
  /\ lastOp.calls = <<Call("SignalError", "observer", "none")>>
  /\ state_ = "RECEIVEDACCEPT"
  /\ voice_channel_ # NULL
  /\ video_channel_ # NULL
  /\ local_description_.id # NULL
  /\ local_candidates_ # <<>>
  /\ channels[voice_channel_].destroys = 0

\* C18: after negotiation_done() with both channels present, the channel of
\* a media type whose content is in the local description is muted iff that
\* content has no streams, and the channel of a media type with no content
\* there (or with no local description at all) keeps its mute state.
C18_MutedIffNoStreams ==
  [][(/\ lastOp'.op = "NegotiationDone"
      /\ voice_channel_ # NULL
      /\ video_channel_ # NULL)
     => /\ pc' = "alive"
        /\ \A target \in {"voice", "video"} :
             IF ChannelContent(target).present
             THEN channels'[Handle(target)].muted
                  = (ChannelContent(target).streams = 0)
             ELSE /\ channels'[Handle(target)].muted = channels[Handle(target)].muted
                  /\ CountCalls(lastOp'.calls, "Mute", target) = 0]_vars

\* the voice channel was muted under an offer whose audio had no streams;
\* under a later offer with no audio content and a video content with a
\* stream, negotiation_done() has left it muted and the video channel
\* unmuted
C18_AbsentContentKeepsMute ==
  /\ lastOp.op = "NegotiationDone"
  /\ voice_channel_ # NULL
  /\ video_channel_ # NULL
  /\ ~local_description_.audio.present
  /\ local_description_.video = Content(1)
  /\ channels[voice_channel_].muted
  /\ ~channels[video_channel_].muted

\* C19: whatever public operations were called before, negotiation_done()
\* and set_remote_renderer() make their Enable, Mute and SetRenderer calls
\* only through a handle that is present.  (Refuted: neither tests its
\* handle; negotiation_done() on a session that was never initialized goes
\* through the absent voice handle.)
C19_NoCallThroughAbsentHandle ==
  lastOp.op \in {"NegotiationDone", "SetRemoteRenderer"}
  => \A i \in 1..Len(lastOp.calls) :
       lastOp.calls[i].target \in {"voice", "video"}
       => lastOp.calls[i].val.handle # NULL

\* the places in batch of the candidates that are the first of their
\* channel name in the batch and whose name lc does not hold
FirstArrivals(lc, batch) ==
  {i \in 1..Len(batch) :
     /\ batch[i].name \notin Names(lc)
     /\ \A j \in 1..(i - 1) : batch[j].name # batch[i].name}

\* the k-th smallest member of the set of places K
Nth(K, k) == CHOOSE i \in K : Cardinality({j \in K : j < i}) = k - 1

\* C20: every step leaves the candidates stored before where they were, as
\* a prefix of the set, with no channel name twice; an insertion appends,
\* in batch order, exactly the candidates that are the first of their
\* channel name in the batch and whose name was not stored (a later one of
\* a stored name is dropped, in the same batch too); what the observer is
\* given is the set as stored.
C20_GrowsFirstArrivalWins ==
  [][/\ Len(local_candidates_') >= Len(local_candidates_)
     /\ SubSeq(local_candidates_', 1, Len(local_candidates_)) = local_candidates_
     /\ Cardinality(Names(local_candidates_')) = Len(local_candidates_')
     /\ lastOp'.op = "InsertTransportCandidates"
        => LET K == FirstArrivals(local_candidates_, lastOp'.arg)
           IN /\ Len(local_candidates_') = Len(local_candidates_) + Cardinality(K)
              /\ \A k \in 1..Cardinality(K) :
                   local_candidates_'[Len(local_candidates_) + k]
                   = lastOp'.arg[Nth(K, k)]
     /\ \A i \in 1..Len(lastOp'.calls) :
          lastOp'.calls[i].fn = "OnCandidatesReady"
          => lastOp'.calls[i].val = local_candidates_']_vars

\* with the first "rtp" candidate stored, a batch of a different "rtp"
\* candidate and a "rtcp" candidate has stored the "rtcp" one alone
C20_LaterSameNameDropped ==
  /\ lastOp.op = "InsertTransportCandidates"
  /\ lastOp.arg = <<Candidate("rtp", 1), Candidate("rtcp", 0)>>
  /\ local_candidates_ = <<Candidate("rtp", 0), Candidate("rtcp", 0)>>

RemotePath == {"SetRemoteCandidates", "SetRemoteSessionDescription"}

\* C21: set_remote_candidates and set_remote_session_description leave the
\* local candidates, the observer's notifications, the session state and
\* the watchdog as they were, and call only the transport proxies (and the
\* setter of the remote description); on_transport_candidates_ready leaves
\* both descriptions, the session state and the watchdog as they were, and
\* calls only the observer.
C21_PathsKeptApart ==
  [][/\ lastOp'.op \in RemotePath
        => /\ UNCHANGED <<local_candidates_, observer_, state_, msgq, tally>>
           /\ \A i \in 1..Len(lastOp'.calls) :
                lastOp'.calls[i].fn \in {"set_remote_description",
                                          "CompleteNegotiation", "OnRemoteCandidates"}
     /\ lastOp'.op = "OnTransportCandidatesReady"
        => /\ UNCHANGED <<descVars, state_, msgq>>
           /\ tally'.armed = tally.armed
           /\ tally'.superseded = tally.superseded
           /\ tally'.errors = tally.errors
           /\ \A i \in 1..Len(lastOp'.calls) :
                lastOp'.calls[i].fn = "OnCandidatesReady"]_vars

\* a remote description with candidates for both media types has been
\* taken and forwarded while the session holds two local candidates, an
\* observer, an offer, a negotiated state and a pending watchdog
C21_RemoteIngestBesideLocalSet ==
  /\ lastOp.op = "SetRemoteSessionDescription"
  /\ CountCalls(lastOp.calls, "OnRemoteCandidates", "audio") = 1
  /\ CountCalls(lastOp.calls, "OnRemoteCandidates", "video") = 1
  /\ Len(local_candidates_) = 2
  /\ observer_
  /\ local_description_.id # NULL
  /\ state_ = "RECEIVEDACCEPT"
  /\ Pending(msgq) = 1
  /\ tally.candidates_ready = 0

====
